---- MODULE Spec2Model ----
(***************************************************************************)
(* Model of snips-nlu-ontology-ffi/src/builtin_entity_parser.rs: the C ABI *)
(* around the builtin entity parser.  Three entry points:                  *)
(*   nlu_ontology_create_builtin_entity_parser                             *)
(*   nlu_ontology_extract_entities                                         *)
(*   nlu_ontology_destroy_builtin_entity_parser                            *)
(* Strings are NUL-terminated byte buffers, pointers are heap indices      *)
(* (0 is the null pointer), Arc<BuiltinEntityParser> is a strong count on  *)
(* a parser instance.                                                      *)
(***************************************************************************)
EXTENDS Integers, Sequences, FiniteSets, TLC

\* ------------------------------------------------------------------ bounds
\* number of out_handle slots the caller owns (one create per slot)
NumHandles == 2
\* number of Result Arrays the callee may allocate in one run
MaxArrays == 2
NumThreads == 2

Handles == 1 .. NumHandles
NULL == 0

\* ------------------------------------------------------------ byte strings
\* A C string argument is a byte buffer ending with a NUL byte.
CBuf(bytes) == bytes \o <<0>>

RECURSIVE NulIndex(_, _)
NulIndex(buf, i) ==
    IF i > Len(buf) THEN Len(buf) + 1
    ELSE IF buf[i] = 0 THEN i
    ELSE NulIndex(buf, i + 1)

\* CStr::from_ptr(p).to_bytes(): the bytes before the first NUL.
CStrFromPtr(buf) == SubSeq(buf, 1, NulIndex(buf, 1) - 1)

IsCont(b) == b >= 128 /\ b <= 191

\* str::from_utf8 validation, over the whole UTF-8 table.
RECURSIVE Utf8Valid(_)
Utf8Valid(b) ==
    IF Len(b) = 0 THEN TRUE
    ELSE LET c == b[1] IN
      IF c < 128 THEN Utf8Valid(Tail(b))
      ELSE IF c >= 194 /\ c <= 223 THEN
           /\ Len(b) >= 2
           /\ IsCont(b[2])
           /\ Utf8Valid(SubSeq(b, 3, Len(b)))
      ELSE IF c >= 224 /\ c <= 239 THEN
           /\ Len(b) >= 3
           /\ IsCont(b[2])
           /\ IsCont(b[3])
           /\ (c = 224 => b[2] >= 160)
           /\ (c = 237 => b[2] <= 159)
           /\ Utf8Valid(SubSeq(b, 4, Len(b)))
      ELSE IF c >= 240 /\ c <= 244 THEN
           /\ Len(b) >= 4
           /\ IsCont(b[2])
           /\ IsCont(b[3])
           /\ IsCont(b[4])
           /\ (c = 240 => b[2] >= 144)
           /\ (c = 244 => b[2] <= 143)
           /\ Utf8Valid(SubSeq(b, 5, Len(b)))
      ELSE FALSE

\* CStr::to_str(): Ok(text) for valid UTF-8, Err(Utf8Error) otherwise.
ToStr(bytes) ==
    IF Utf8Valid(bytes) THEN [ok |-> TRUE, text |-> bytes]
    ELSE [ok |-> FALSE, text |-> <<>>]

\* ------------------------------------------------------- error values
\* OntologyResult's Err side: the kind of failure and the value it names.
NoError == [kind |-> "None", name |-> <<>>]
InvalidText == [kind |-> "InvalidText", name |-> <<>>]
UnknownLanguage(text) == [kind |-> "UnknownLanguage", name |-> text]
UnknownEntityKind(text) == [kind |-> "UnknownEntityKind", name |-> text]

\* CResult
RESULT_OK == 0
RESULT_KO == 1

\* ------------------------------------------- the ontology crate (external)
\* language codes, as text
TxtEn == <<101, 110>>
TxtKo == <<107, 111>>
TxtXx == <<120, 120>>

Languages == {"EN", "KO"}

\* Language::from_str
LanguageFromStr(text) ==
    IF text = TxtEn THEN [ok |-> TRUE, lang |-> "EN"]
    ELSE IF text = TxtKo THEN [ok |-> TRUE, lang |-> "KO"]
    ELSE [ok |-> FALSE, lang |-> "EN"]

\* The entity-kind taxonomy and the identifier of each kind.
SnipsPrefix == <<115, 110, 105, 112, 115, 47>>
IdNumber == SnipsPrefix \o <<110, 117, 109, 98, 101, 114>>
IdPercentage == SnipsPrefix \o <<112, 101, 114, 99, 101, 110, 116, 97, 103, 101>>
IdDatetime == SnipsPrefix \o <<100, 97, 116, 101, 116, 105, 109, 101>>
IdBogus == SnipsPrefix \o <<116, 111, 116, 97, 108, 108, 121, 95, 98, 111, 103, 117, 115, 95, 107, 105, 110, 100>>
IdBogus2 == <<98, 111, 103, 117, 115>>

AllKinds == <<"Number", "Percentage", "Time">>

Identifier(kind) ==
    CASE kind = "Number" -> IdNumber
      [] kind = "Percentage" -> IdPercentage
      [] OTHER -> IdDatetime

\* BuiltinEntityKind::from_identifier: exact match on the identifier.
FromIdentifier(text) ==
    IF \E i \in 1 .. Len(AllKinds) : Identifier(AllKinds[i]) = text
    THEN [ok |-> TRUE,
          kind |-> AllKinds[CHOOSE i \in 1 .. Len(AllKinds) : Identifier(AllKinds[i]) = text]]
    ELSE [ok |-> FALSE, kind |-> "Number"]

\* BuiltinEntityKind::supported_languages, seen from the language.
SupportedKinds(lang) ==
    IF lang = "EN" THEN <<"Number", "Percentage", "Time">>
    ELSE <<"Number", "Time">>

\* The byte that marks a mention of a kind in a sentence.
Trigger(kind) ==
    CASE kind = "Number" -> 53
      [] kind = "Percentage" -> 37
      [] OTHER -> 64

RECURSIVE Mentions(_, _, _)
Mentions(kind, text, i) ==
    IF i > Len(text) THEN <<>>
    ELSE IF text[i] = Trigger(kind)
         THEN <<[kind |-> kind, start |-> i - 1, end |-> i, value |-> <<text[i]>>]>>
              \o Mentions(kind, text, i + 1)
         ELSE Mentions(kind, text, i + 1)

\* the filter argument of the engine: Option<&[BuiltinEntityKind]>
None == [some |-> FALSE, kinds |-> <<>>]
Some(kinds) == [some |-> TRUE, kinds |-> kinds]

Allowed(kind, opt) ==
    \/ ~opt.some
    \/ \E i \in 1 .. Len(opt.kinds) : opt.kinds[i] = kind

RECURSIVE ExtractKinds(_, _, _)
ExtractKinds(kinds, text, opt) ==
    IF kinds = <<>> THEN <<>>
    ELSE (IF Allowed(Head(kinds), opt) THEN Mentions(Head(kinds), text, 1) ELSE <<>>)
         \o ExtractKinds(Tail(kinds), text, opt)

\* BuiltinEntityParser::extract_entities on the parser of a language.
EngineExtract(lang, text, opt) == ExtractKinds(SupportedKinds(lang), text, opt)

\* CBuiltinEntity::from, for one record
CBuiltinEntityFrom(e) ==
    [entity_kind |-> CBuf(Identifier(e.kind)),
     value |-> CBuf(e.value),
     range_start |-> e.start,
     range_end |-> e.end]

\* ------------------------------------------------- extract_entity, pure part
\* *const CStringArray: null, or {data, size}
NullArray == [null |-> TRUE, data |-> <<>>, size |-> 0]
StringArray(bufs) == [null |-> FALSE, data |-> bufs, size |-> Len(bufs)]

\* line 97-98: one element of the filter list, decoded then resolved
FilterElem(buf) ==
    LET s == ToStr(CStrFromPtr(buf)) IN
    IF ~s.ok THEN [ok |-> FALSE, err |-> InvalidText, kind |-> "Number"]
    ELSE LET k == FromIdentifier(s.text) IN
         IF ~k.ok THEN [ok |-> FALSE, err |-> UnknownEntityKind(s.text), kind |-> "Number"]
         ELSE [ok |-> TRUE, err |-> NoError, kind |-> k.kind]

\* variant: two passes, every element is decoded to text before the first
\* one is resolved to a kind
RECURSIVE DecodeAll(_)
DecodeAll(elems) ==
    IF elems = <<>> THEN [ok |-> TRUE, seen |-> 0]
    ELSE IF ~ToStr(CStrFromPtr(Head(elems))).ok THEN [ok |-> FALSE, seen |-> 1]
    ELSE LET rest == DecodeAll(Tail(elems)) IN [rest EXCEPT !.seen = @ + 1]

RECURSIVE ResolveAll(_)
ResolveAll(elems) ==
    IF elems = <<>> THEN [ok |-> TRUE, err |-> NoError, kinds |-> <<>>, seen |-> 0]
    ELSE LET e == FilterElem(Head(elems)) IN
         IF ~e.ok THEN [ok |-> FALSE, err |-> e.err, kinds |-> <<>>, seen |-> 1]
         ELSE LET rest == ResolveAll(Tail(elems)) IN
              IF ~rest.ok THEN [rest EXCEPT !.seen = @ + 1]
              ELSE [ok |-> TRUE, err |-> NoError, kinds |-> <<e.kind>> \o rest.kinds,
                    seen |-> rest.seen + 1]

CollectFiltersTwoPass(elems) ==
    LET d == DecodeAll(elems) IN
    IF ~d.ok THEN [ok |-> FALSE, err |-> InvalidText, kinds |-> <<>>, seen |-> d.seen]
    ELSE ResolveAll(elems)

\* variant: every element is resolved and the last Err met is the one kept
RECURSIVE CollectFiltersLastErr(_)
CollectFiltersLastErr(elems) ==
    IF elems = <<>> THEN [ok |-> TRUE, err |-> NoError, kinds |-> <<>>, seen |-> 0]
    ELSE LET e == FilterElem(Head(elems))
             rest == CollectFiltersLastErr(Tail(elems))
         IN IF ~rest.ok THEN [rest EXCEPT !.seen = @ + 1]
            ELSE IF ~e.ok
                 THEN [ok |-> FALSE, err |-> e.err, kinds |-> <<>>, seen |-> rest.seen + 1]
            ELSE [ok |-> TRUE, err |-> NoError, kinds |-> <<e.kind>> \o rest.kinds,
                  seen |-> rest.seen + 1]

\* line 96-99: map over the slice, collected into OntologyResult<Vec<_>>:
\* the first Err met in list order ends the collection.  seen counts the
\* elements the closure was run on.
RECURSIVE CollectFilters(_)
CollectFilters(elems) ==
    IF elems = <<>> THEN [ok |-> TRUE, err |-> NoError, kinds |-> <<>>, seen |-> 0]
    ELSE LET e == FilterElem(Head(elems)) IN
         IF ~e.ok THEN [ok |-> FALSE, err |-> e.err, kinds |-> <<>>, seen |-> 1]
         ELSE LET rest == CollectFilters(Tail(elems)) IN
              IF ~rest.ok THEN [rest EXCEPT !.seen = @ + 1]
              ELSE [ok |-> TRUE, err |-> NoError, kinds |-> <<e.kind>> \o rest.kinds,
                    seen |-> rest.seen + 1]

\* variant: a list of size 0 is taken for "no filter"
OptFiltersEmptyAsNull(filters) ==
    IF ~filters.null /\ filters.size > 0
    THEN LET r == CollectFilters(SubSeq(filters.data, 1, filters.size)) IN
         [ok |-> r.ok, err |-> r.err, opt |-> Some(r.kinds), seen |-> r.seen]
    ELSE [ok |-> TRUE, err |-> NoError, opt |-> None, seen |-> 0]

\* variant: a null filter pointer is read as an empty list
OptFiltersNullAsEmpty(filters) ==
    LET r == CollectFilters(SubSeq(filters.data, 1, filters.size)) IN
    [ok |-> r.ok, err |-> r.err, opt |-> Some(r.kinds), seen |-> r.seen]

\* line 91-104: opt_filters
OptFilters(filters) ==
    IF ~filters.null
    THEN LET r == CollectFilters(SubSeq(filters.data, 1, filters.size)) IN
         [ok |-> r.ok, err |-> r.err, opt |-> Some(r.kinds), seen |-> r.seen]
    ELSE [ok |-> TRUE, err |-> NoError, opt |-> None, seen |-> 0]

\* variant: the converted records are pushed at the front of the vector
RECURSIVE CollectEntitiesReversed(_)
CollectEntitiesReversed(es) ==
    IF es = <<>> THEN <<>>
    ELSE CollectEntitiesReversed(Tail(es)) \o <<CBuiltinEntityFrom(Head(es))>>

\* line 107-109: every engine record converted, in order
RECURSIVE CollectEntities(_)
CollectEntities(es) ==
    IF es = <<>> THEN <<>>
    ELSE <<CBuiltinEntityFrom(Head(es))>> \o CollectEntities(Tail(es))

\* variant: the filter list is decoded before the sentence
ExtractEntityFiltersFirst(lang, sentence, filters) ==
    LET f == OptFilters(filters)
        s == ToStr(CStrFromPtr(sentence))
    IN IF ~f.ok THEN [ok |-> FALSE, err |-> f.err, entities |-> <<>>, engine |-> FALSE,
                      seen |-> f.seen, opt |-> None]
       ELSE IF ~s.ok THEN [ok |-> FALSE, err |-> InvalidText, entities |-> <<>>,
                           engine |-> FALSE, seen |-> f.seen, opt |-> None]
       ELSE [ok |-> TRUE, err |-> NoError,
             entities |-> CollectEntities(EngineExtract(lang, s.text, f.opt)),
             engine |-> TRUE, seen |-> f.seen, opt |-> f.opt]

\* variant: the sentence is converted lossily (to_string_lossy), a
\* malformed one is parsed like any other
ExtractEntityLossy(lang, sentence, filters) ==
    LET f == OptFilters(filters) IN
    IF ~f.ok THEN [ok |-> FALSE, err |-> f.err, entities |-> <<>>, engine |-> FALSE,
                   seen |-> f.seen, opt |-> None]
    ELSE [ok |-> TRUE, err |-> NoError,
          entities |-> CollectEntities(EngineExtract(lang, CStrFromPtr(sentence), f.opt)),
          engine |-> TRUE, seen |-> f.seen, opt |-> f.opt]

\* line 88-116, on the parser of language lang: the OntologyResult, the
\* array built for *results, whether line 106 was reached and with which
\* filter argument, and how many filter elements were looked at.
ExtractEntity(lang, sentence, filters) ==
    LET s == ToStr(CStrFromPtr(sentence)) IN
    IF ~s.ok THEN [ok |-> FALSE, err |-> InvalidText, entities |-> <<>>, engine |-> FALSE,
                   seen |-> 0, opt |-> None]
    ELSE LET f == OptFilters(filters) IN
         IF ~f.ok THEN [ok |-> FALSE, err |-> f.err, entities |-> <<>>, engine |-> FALSE,
                        seen |-> f.seen, opt |-> None]
         ELSE [ok |-> TRUE, err |-> NoError,
               entities |-> CollectEntities(EngineExtract(lang, s.text, f.opt)),
               engine |-> TRUE, seen |-> f.seen, opt |-> f.opt]

\* variant: the language is looked up on the bytes with their NUL
\* terminator (to_bytes_with_nul)
ResolveLanguageWithNul(lang) ==
    LET s == ToStr(lang) IN
    IF ~s.ok THEN [ok |-> FALSE, err |-> InvalidText, lang |-> "EN"]
    ELSE LET l == LanguageFromStr(s.text) IN
         IF ~l.ok THEN [ok |-> FALSE, err |-> UnknownLanguage(s.text), lang |-> "EN"]
         ELSE [ok |-> TRUE, err |-> NoError, lang |-> l.lang]

\* variant: the language is looked up on the raw bytes, and the text is
\* validated only for a language that was found
ResolveLanguageUnchecked(lang) ==
    LET l == LanguageFromStr(CStrFromPtr(lang)) IN
    IF ~l.ok THEN [ok |-> FALSE, err |-> UnknownLanguage(CStrFromPtr(lang)), lang |-> "EN"]
    ELSE IF ~ToStr(CStrFromPtr(lang)).ok
         THEN [ok |-> FALSE, err |-> InvalidText, lang |-> "EN"]
         ELSE [ok |-> TRUE, err |-> NoError, lang |-> l.lang]

\* line 69-70 of create_builtin_entity_parser: the language, or the error
ResolveLanguage(lang) ==
    LET s == ToStr(CStrFromPtr(lang)) IN
    IF ~s.ok THEN [ok |-> FALSE, err |-> InvalidText, lang |-> "EN"]
    ELSE LET l == LanguageFromStr(s.text) IN
         IF ~l.ok THEN [ok |-> FALSE, err |-> UnknownLanguage(s.text), lang |-> "EN"]
         ELSE [ok |-> TRUE, err |-> NoError, lang |-> l.lang]

\* ------------------------------------------------------------------ inputs
BufEn == CBuf(TxtEn)
BufKo == CBuf(TxtKo)
BufXx == CBuf(TxtXx)
\* 0xFF never occurs in UTF-8
BufBadLang == CBuf(<<101, 255>>)
LangInputs == {BufEn, BufKo, BufXx, BufBadLang}

\* "\u00e9 5%@" (the first character takes two bytes), and a sentence that
\* ends inside a two-byte character
BufSentence == CBuf(<<195, 169, 32, 53, 37, 64>>)
BufBadSentence == CBuf(<<53, 195>>)
SentenceInputs == {BufSentence, BufBadSentence}

BufNumber == CBuf(IdNumber)
BufPercentage == CBuf(IdPercentage)
BufDatetime == CBuf(IdDatetime)
BufBogus == CBuf(IdBogus)
BufBogus2 == CBuf(IdBogus2)
BufBadKind == CBuf(<<255>>)

FilterInputs ==
    {NullArray,
     StringArray(<<>>),
     StringArray(<<BufDatetime, BufNumber>>),
     StringArray(<<BufPercentage, BufNumber, BufDatetime>>),
     StringArray(<<BufBogus>>),
     StringArray(<<BufNumber, BufBogus, BufBogus2>>),
     StringArray(<<BufBogus2, BufNumber, BufBogus>>),
     StringArray(<<BufBadKind, BufBogus>>),
     StringArray(<<BufBogus, BufBadKind>>)}

\* extract_entity's pure part, tabulated over the inputs
ExtractTable ==
    [lang \in Languages, s \in SentenceInputs, f \in FilterInputs |->
        ExtractEntity(lang, s, f)]

\* ------------------------------------------------------------------- state
VARIABLES
    slot,       \* the caller's out_handle slots: NULL, or the container written there
    boxes,      \* heap of CBuiltinEntityParser containers, by address
    insts,      \* heap of BuiltinEntityParser instances behind an Arc, by address
    results,    \* the caller's out_result slot: NULL, or the array written there
    nArrays,    \* number of CBuiltinEntityArray allocated so far
    lastError,  \* the single-slot last-error message
    destroys,   \* number of destroy calls made on each handle
    last,       \* the most recent call: its arguments and what it returned
    policy,     \* how the engine hands out parser instances (fixed for a run)
    made,       \* the language each handle was successfully created with
    threads     \* the extract call each execution context is making or has made

vars ==
    <<slot, boxes, insts, results, nArrays, lastError, destroys, last, policy, made,
      threads>>

Threads == 1 .. NumThreads

\* an execution context that has made no call yet
NoThread ==
    [pc |-> "idle", h |-> 0, buf |-> <<>>, filters |-> NullArray, parser |-> NULL,
     overlapped |-> FALSE, status |-> RESULT_OK, err |-> NoError, entities |-> <<>>]

\* "fresh": every get builds an instance; "dedup": an instance still
\* allocated is shared, none is kept by the engine; "cache": one instance
\* per language, the engine keeps a share of it for good.
Policies == {"fresh", "dedup", "cache"}

NoCall ==
    [op |-> "none", h |-> 0, buf |-> <<>>, filters |-> NullArray,
     status |-> RESULT_OK, err |-> NoError, entities |-> <<>>, engine |-> FALSE,
     pre |-> NULL, seen |-> 0, opt |-> None, mem |-> NullArray, reports |-> 0]

Init ==
    /\ slot = [h \in Handles |-> NULL]
    /\ boxes = <<>>
    /\ insts = <<>>
    /\ results = NULL
    /\ nArrays = 0
    /\ lastError = NoError
    /\ destroys = [h \in Handles |-> 0]
    /\ last = NoCall
    /\ policy \in Policies
    /\ made = [h \in Handles |-> "none"]
    /\ threads = [t \in Threads |-> NoThread]

\* ------------------------------------------------------------------ the Arc
\* BuiltinEntityParser::get(lang): an Arc on a parser of that language,
\* either a new instance or one more share of an instance already built;
\* engine = 1 is the share the engine's cache keeps for as long as the
\* process runs.
ParserGet(lang) ==
    LET e == IF policy = "cache" THEN 1 ELSE 0
        built == {q \in 1 .. Len(insts) : insts[q].lang = lang /\ insts[q].strong > 0}
    IN IF policy = "fresh" \/ built = {}
       THEN [insts |-> Append(insts, [lang |-> lang, strong |-> 1 + e, engine |-> e]),
             p |-> Len(insts) + 1]
       ELSE LET p == CHOOSE q \in built : TRUE IN
            [insts |-> [insts EXCEPT ![p].strong = @ + 1], p |-> p]

\* variant: the instance is released outright instead of one share of it
ArcDropAll(heap, p) == [heap EXCEPT ![p].strong = 0]

\* drop(Arc::from_raw(p)): one share less; at zero the instance is released
ArcDrop(heap, p) == [heap EXCEPT ![p].strong = @ - 1]

\* &*x on a parser pointer (get_parser!): the instance while it is
\* allocated; reading a released instance may yield any parser.
DerefLangs(p) ==
    IF insts[p].strong > 0 THEN {insts[p].lang} ELSE Languages

\* ---------------------------------------------------------------- operations
\* variant: container.parser is a borrowed pointer (no Arc::into_raw), so
\* the share obtained from the engine is dropped when the function returns
create_borrowed_parser(h, lang) ==
    LET r == ResolveLanguage(lang) IN
    IF ~r.ok
    THEN {[ok |-> FALSE, err |-> r.err, slot |-> slot, boxes |-> boxes, insts |-> insts]}
    ELSE LET g == ParserGet(r.lang) IN
         {[ok |-> TRUE, err |-> NoError,
           slot |-> [slot EXCEPT ![h] = Len(boxes) + 1],
           boxes |-> Append(boxes, [parser |-> g.p, owns |-> TRUE, alloc |-> TRUE]),
           insts |-> [g.insts EXCEPT ![g.p].strong = @ - 1]]}

\* variant: the container is allocated and written to *ptr before the
\* language is validated
create_writes_first(h, lang) ==
    LET r == ResolveLanguage(lang)
        g == ParserGet(r.lang)
    IN {[ok |-> r.ok, err |-> r.err,
         slot |-> [slot EXCEPT ![h] = Len(boxes) + 1],
         boxes |-> Append(boxes, [parser |-> g.p, owns |-> TRUE, alloc |-> TRUE]),
         insts |-> g.insts]}

\* create_builtin_entity_parser (line 65-80): the possible outcomes
create_builtin_entity_parser(h, lang) ==
    LET r == ResolveLanguage(lang) IN
    IF ~r.ok
    THEN {[ok |-> FALSE, err |-> r.err, slot |-> slot, boxes |-> boxes, insts |-> insts]}
    ELSE LET g == ParserGet(r.lang) IN
         {[ok |-> TRUE, err |-> NoError,
           slot |-> [slot EXCEPT ![h] = Len(boxes) + 1],
           boxes |-> Append(boxes, [parser |-> g.p, owns |-> TRUE, alloc |-> TRUE]),
           insts |-> g.insts]}

\* variant: the parser is taken out of the container as an owning Arc
\* (Arc::from_raw), whose share is dropped when the call is over
get_parser_from_raw(h) ==
    [parser |-> boxes[slot[h]].parser,
     insts |-> ArcDrop(insts, boxes[slot[h]].parser)]

\* get_parser! (line 19-25): a shared reference to the container, then a
\* shared reference to the parser behind container.parser; nothing is
\* written and no share is taken
get_parser(h) ==
    [parser |-> boxes[slot[h]].parser, insts |-> insts]

\* variant: the parser is taken with Arc::from_raw instead of get_parser!,
\* so one share is dropped when the function returns
extract_entity_from_raw(h, sentence, filters) ==
    {LET r == ExtractTable[lang, sentence, filters] IN
     [ok |-> r.ok, err |-> r.err, entities |-> r.entities, engine |-> r.engine,
      seen |-> r.seen, opt |-> r.opt, filters |-> filters,
      boxes |-> boxes, insts |-> ArcDrop(insts, boxes[slot[h]].parser),
      results |-> IF r.ok THEN nArrays + 1 ELSE results,
      nArrays |-> IF r.ok THEN nArrays + 1 ELSE nArrays] :
        lang \in DerefLangs(boxes[slot[h]].parser)}

\* extract_entity (line 82-117): the possible outcomes.  The container and
\* the parser are reached through shared references and the filter list
\* through a *const slice: all three come out as they went in.
extract_entity(h, sentence, filters) ==
    {LET r == ExtractTable[lang, sentence, filters] IN
     [ok |-> r.ok, err |-> r.err, entities |-> r.entities, engine |-> r.engine,
      seen |-> r.seen, opt |-> r.opt, filters |-> filters,
      boxes |-> boxes, insts |-> insts,
      results |-> IF r.ok THEN nArrays + 1 ELSE results,
      nArrays |-> IF r.ok THEN nArrays + 1 ELSE nArrays] :
        lang \in DerefLangs(boxes[slot[h]].parser)}

\* variant: the parser is only borrowed, its share is never given back
destroy_without_from_raw(h) ==
    [boxes |-> boxes, insts |-> insts, status |-> RESULT_OK, lastError |-> lastError]

\* variant: destroy refuses, with a message, a parser that other handles
\* still share
destroy_refuses_shared(h) ==
    LET ptr == slot[h]
        parser == boxes[ptr].parser
    IN IF insts[parser].strong - insts[parser].engine > 1
       THEN [boxes |-> boxes, insts |-> insts, status |-> RESULT_KO,
             lastError |-> InvalidText]
       ELSE [boxes |-> [boxes EXCEPT ![ptr].owns = FALSE],
             insts |-> ArcDrop(insts, parser),
             status |-> RESULT_OK, lastError |-> lastError]

\* nlu_ontology_destroy_builtin_entity_parser (line 55-63): the share held
\* through container.parser is given back to an Arc and dropped; the
\* container itself is not touched.  There is no wrap!: the function
\* returns RESULT_OK and the message slot is not written.
destroy_builtin_entity_parser(h) ==
    LET ptr == slot[h]
        parser == boxes[ptr].parser
    IN [boxes |-> [boxes EXCEPT ![ptr].owns = FALSE],
        insts |-> ArcDrop(insts, parser),
        status |-> RESULT_OK, lastError |-> lastError]

\* wrap!: Ok is RESULT_OK; Err records the message, once, and is RESULT_KO
WrapStatus(o) == IF o.ok THEN RESULT_OK ELSE RESULT_KO
WrapLastError(o) == IF o.ok THEN lastError ELSE o.err
WrapReports(o) == IF o.ok THEN 0 ELSE 1

\* ------------------------------------------------------- handle lifecycle
HState(h) ==
    IF slot[h] = NULL THEN "Uncreated"
    ELSE IF boxes[slot[h]].owns THEN "Live"
    ELSE "Destroyed"

\* ------------------------------------------------------------------ actions
\* nlu_ontology_create_builtin_entity_parser(&slot[h], lang)
Create(h, lang) ==
    /\ HState(h) = "Uncreated"
    /\ \A g \in Handles : g < h => HState(g) # "Uncreated"
    /\ \E o \in create_builtin_entity_parser(h, lang) :
        /\ slot' = o.slot
        /\ boxes' = o.boxes
        /\ insts' = o.insts
        /\ lastError' = WrapLastError(o)
        /\ last' = [NoCall EXCEPT !.op = "create", !.h = h, !.buf = lang,
                                  !.status = WrapStatus(o), !.err = o.err,
                                  !.reports = WrapReports(o),
                                  !.pre = slot[h]]
        /\ made' = IF o.ok THEN [made EXCEPT ![h] = ResolveLanguage(lang).lang] ELSE made
    /\ UNCHANGED <<results, nArrays, destroys, policy, threads>>

\* variant: the Err of extract_entity is turned into RESULT_KO without
\* wrap!, no message is recorded
ExtractUnreported(h, sentence, filters) ==
    /\ slot[h] # NULL
    /\ boxes[slot[h]].owns
    /\ nArrays < MaxArrays
    /\ \E o \in extract_entity(h, sentence, filters) :
        /\ results' = o.results
        /\ nArrays' = o.nArrays
        /\ boxes' = o.boxes
        /\ insts' = o.insts
        /\ lastError' = lastError
        /\ last' = [op |-> "extract", h |-> h, buf |-> sentence, filters |-> filters,
                    status |-> IF o.ok THEN RESULT_OK ELSE RESULT_KO, err |-> o.err,
                    entities |-> o.entities, engine |-> o.engine, pre |-> results,
                    seen |-> o.seen, opt |-> o.opt, mem |-> o.filters, reports |-> 0]
    /\ UNCHANGED <<slot, destroys, policy, made, threads>>

\* nlu_ontology_extract_entities(slot[h], sentence, filters, &results)
Extract(h, sentence, filters) ==
    /\ HState(h) = "Live"
    /\ nArrays < MaxArrays
    /\ \E o \in extract_entity(h, sentence, filters) :
        /\ results' = o.results
        /\ boxes' = o.boxes
        /\ insts' = o.insts
        /\ nArrays' = o.nArrays
        /\ lastError' = WrapLastError(o)
        /\ last' = [NoCall EXCEPT !.op = "extract", !.h = h, !.buf = sentence,
                                  !.filters = filters,
                                  !.status = WrapStatus(o), !.err = o.err,
                                  !.entities = o.entities, !.engine = o.engine,
                                  !.seen = o.seen, !.opt = o.opt, !.mem = o.filters,
                                  !.reports = WrapReports(o),
                                  !.pre = results]
    /\ UNCHANGED <<slot, destroys, policy, made, threads>>

\* nlu_ontology_destroy_builtin_entity_parser(slot[h])
Destroy(h) ==
    /\ HState(h) = "Live"
    /\ LET o == destroy_builtin_entity_parser(h) IN
        /\ boxes' = o.boxes
        /\ insts' = o.insts
        /\ lastError' = o.lastError
        /\ last' = [NoCall EXCEPT !.op = "destroy", !.h = h, !.status = o.status,
                                  !.pre = slot[h]]
    /\ destroys' = [destroys EXCEPT ![h] = @ + 1]
    /\ UNCHANGED <<slot, results, nArrays, policy, made, threads>>

Next ==
    \/ \E h \in Handles, lang \in LangInputs : Create(h, lang)
    \/ \E h \in Handles, s \in SentenceInputs, f \in FilterInputs : Extract(h, s, f)
    \/ \E h \in Handles : Destroy(h)

Spec == Init /\ [][Next]_vars

\* ------------------------------------------------- concurrent extraction
\* Several execution contexts call nlu_ontology_extract_entities on one
\* handle.  A call is two steps: get_parser! (line 88) reads the parser
\* pointer out of the container; the rest (line 89-113) reads the instance
\* behind it, converts and returns.  Each context has its own out_result
\* slot, so the array it receives is kept in its own record.
SharedHandle == CHOOSE h \in Handles : \A g \in Handles : h <= g

ConcInputs ==
    {<<BufSentence, NullArray>>,
     <<BufSentence, StringArray(<<BufBogus>>)>>}

InFlight(t) == threads[t].pc = "parsing"

\* line 88: let parser = get_parser!(ptr)
ExtractBegin(t, h, sentence, filters) ==
    /\ ~InFlight(t)
    /\ h = SharedHandle
    /\ HState(h) = "Live"
    /\ LET g == get_parser(h)
           busy == {u \in Threads \ {t} : InFlight(u)}
       IN /\ insts' = g.insts
          /\ threads' = [u \in Threads |->
                IF u = t
                THEN [NoThread EXCEPT !.pc = "parsing", !.h = h, !.buf = sentence,
                                      !.filters = filters, !.parser = g.parser,
                                      !.overlapped = busy # {}]
                ELSE IF u \in busy THEN [threads[u] EXCEPT !.overlapped = TRUE]
                ELSE threads[u]]
    /\ UNCHANGED <<slot, boxes, results, nArrays, lastError, destroys, last, policy, made>>

\* line 89-113 and wrap! (line 50): the parser is read, the outcome is
\* returned, an Err is recorded in the message slot
ExtractFinish(t) ==
    /\ InFlight(t)
    /\ \E lang \in DerefLangs(threads[t].parser) :
         LET o == ExtractTable[lang, threads[t].buf, threads[t].filters] IN
         /\ threads' = [threads EXCEPT ![t].pc = "idle",
                                       ![t].status = WrapStatus(o),
                                       ![t].err = o.err,
                                       ![t].entities = o.entities]
         /\ lastError' = WrapLastError(o)
    /\ UNCHANGED <<slot, boxes, insts, results, nArrays, destroys, last, policy, made>>

\* destroy, under the caller's obligation not to destroy a handle on which
\* an extract call is in flight
DestroyQuiescent(h) ==
    /\ \A t \in Threads : InFlight(t) => threads[t].h # h
    /\ Destroy(h)

NextConc ==
    \/ \E h \in Handles, lang \in LangInputs : Create(h, lang)
    \/ \E t \in Threads, h \in Handles, i \in ConcInputs : ExtractBegin(t, h, i[1], i[2])
    \/ \E t \in Threads : ExtractFinish(t)
    \/ \E h \in Handles : DestroyQuiescent(h)

SpecConc == Init /\ [][NextConc]_vars

\* =================================================================== claims
Live(h) == HState(h) = "Live"
ParserOf(h) == boxes[slot[h]].parser

\* the call the step just made, as recorded in last'
Called(op, h) == last'.op = op /\ last'.h = h

\* C1: every handle follows Uncreated -> Live -> Destroyed: a successful
\* create moves it Uncreated -> Live, a failed create leaves it Uncreated,
\* every extract (Success or Failure) leaves it Live, destroy moves it
\* Live -> Destroyed, nothing moves a Destroyed handle, a call on one handle
\* moves no other handle, and no handle is destroyed more than once.
LifecycleStep ==
    \A h \in Handles :
        /\ (Called("create", h) /\ last'.status = RESULT_OK)
              => (HState(h) = "Uncreated" /\ HState(h)' = "Live")
        /\ (Called("create", h) /\ last'.status = RESULT_KO)
              => (HState(h) = "Uncreated" /\ HState(h)' = "Uncreated")
        /\ Called("extract", h) => (HState(h) = "Live" /\ HState(h)' = "Live")
        /\ Called("destroy", h) => (HState(h) = "Live" /\ HState(h)' = "Destroyed")
        /\ HState(h) = "Destroyed" => HState(h)' = "Destroyed"
        /\ last'.h # h => HState(h)' = HState(h)
        /\ destroys'[h] <= 1
        /\ HState(h)' = "Uncreated" => destroys'[h] = 0

C1_Lifecycle == [][LifecycleStep]_vars

\* a handle that was created, used for an extraction and then destroyed
C1_Witness ==
    /\ last.op = "destroy"
    /\ HState(last.h) = "Destroyed"
    /\ destroys[last.h] = 1
    /\ nArrays > 0

\* C2: the shares this layer holds on a parser instance (its strong count
\* less the engine's own share) are as many as the Live handles backed by
\* it, and an instance with a Live handle on it is not released.
LiveOn(p) == {h \in Handles : Live(h) /\ ParserOf(h) = p}

C2_SharesMatchLiveHandles ==
    /\ \A p \in 1 .. Len(insts) :
          insts[p].strong - insts[p].engine = Cardinality(LiveOn(p))
    /\ \A h \in Handles : Live(h) => insts[ParserOf(h)].strong > 0

\* two handles on one instance, one destroyed, the other still Live on the
\* instance that is now held by a single share
C2_Witness ==
    \E h1, h2 \in Handles :
        /\ HState(h1) = "Destroyed"
        /\ Live(h2)
        /\ ParserOf(h1) = ParserOf(h2)
        /\ insts[ParserOf(h2)].strong = 1

\* C3: destroy consumes one share and deallocates the container create
\* allocated for the handle; with the last share gone the instance is
\* released, so nothing allocated for a destroyed handle remains.
C3_DestroyFreesContainer ==
    \A h \in Handles :
        HState(h) = "Destroyed" =>
            /\ ~boxes[slot[h]].alloc
            /\ (Cardinality(LiveOn(ParserOf(h))) = 0 /\ insts[ParserOf(h)].engine = 0
                  => insts[ParserOf(h)].strong = 0)

\* what the caller passed, read off the arguments themselves
WellFormed(buf) == Utf8Valid(CStrFromPtr(buf))
SupportedCodes == {TxtEn, TxtKo}
TaxonomyIds == {IdNumber, IdPercentage, IdDatetime}
Range(seq) == {seq[i] : i \in 1 .. Len(seq)}

\* C4: a create that returns Failure writes no handle, allocates no
\* container and takes no share: only the diagnostic message changes.
CreateFailureStep ==
    (last'.op = "create" /\ last'.status = RESULT_KO) =>
        /\ slot' = slot
        /\ boxes' = boxes
        /\ insts' = insts
        /\ UNCHANGED <<results, nArrays, destroys, made>>
        /\ last'.err.kind \in {"InvalidText", "UnknownLanguage"}
        /\ lastError' = last'.err

C4_FailedCreateLeavesNoHandle == [][CreateFailureStep]_vars

\* a failed create after a successful one: the slot is still empty and the
\* heap holds the one container of the first handle
C4_Witness ==
    /\ last.op = "create"
    /\ last.status = RESULT_KO
    /\ slot[last.h] = NULL
    /\ Len(boxes) = 1
    /\ lastError = last.err

\* C5: a create with a supported language code returns Success and writes
\* one new handle, a container not handed out before, into its slot.
CreateSupportedStep ==
    \A h \in Handles :
        (Called("create", h) /\ CStrFromPtr(last'.buf) \in SupportedCodes) =>
            /\ last'.status = RESULT_OK
            /\ last'.err = NoError
            /\ slot'[h] # NULL
            /\ slot'[h] \notin 1 .. Len(boxes)
            /\ Len(boxes') = Len(boxes) + 1
            /\ boxes'[slot'[h]].alloc
            /\ \A g \in Handles \ {h} : slot'[g] = slot[g]
            /\ lastError' = lastError

C5_SupportedLanguageSucceeds == [][CreateSupportedStep]_vars

\* the second handle created, for the other supported language
C5_Witness ==
    /\ last.op = "create"
    /\ last.status = RESULT_OK
    /\ CStrFromPtr(last.buf) = TxtKo
    /\ \E g \in Handles : g # last.h /\ Live(g) /\ made[g] = "EN"
    /\ Live(last.h)

\* C6: create fails with InvalidText on a code that is not valid text,
\* also when the bytes name no language, and with UnknownLanguage on a
\* well-formed code outside the supported set; the status is Failure.
C6_CreateFailureKinds ==
    last.op = "create" =>
        /\ ~WellFormed(last.buf) =>
              (last.status = RESULT_KO /\ last.err = InvalidText)
        /\ (WellFormed(last.buf) /\ CStrFromPtr(last.buf) \notin SupportedCodes) =>
              (last.status = RESULT_KO /\ last.err = UnknownLanguage(CStrFromPtr(last.buf)))

\* a code that is malformed and names no language, refused as InvalidText
C6_Witness ==
    /\ last.op = "create"
    /\ last.buf = BufBadLang
    /\ last.status = RESULT_KO
    /\ last.err.kind = "InvalidText"
    /\ lastError = InvalidText

\* C7: an extract with a malformed sentence on a Live handle returns
\* Failure with InvalidText, leaves the out_result slot as it was and
\* allocates no array.
MalformedSentenceStep ==
    (last'.op = "extract" /\ ~WellFormed(last'.buf)) =>
        /\ last'.status = RESULT_KO
        /\ last'.err = InvalidText
        /\ results' = results
        /\ nArrays' = nArrays
        /\ last'.entities = <<>>
        /\ ~last'.engine

C7_MalformedSentence == [][MalformedSentenceStep]_vars

C7_Witness ==
    /\ last.op = "extract"
    /\ last.buf = BufBadSentence
    /\ last.status = RESULT_KO
    /\ results = last.pre

\* C8: with a well-formed sentence and a present filter list of well-formed
\* names, one or more of them outside the taxonomy, extract fails with
\* UnknownEntityKind naming the first such name in list order; the engine
\* is not called, nothing is produced and out_result is not written.
FilterNames(filters) == [i \in 1 .. filters.size |-> CStrFromPtr(filters.data[i])]

FirstUnknown(filters) ==
    LET names == FilterNames(filters)
        i == CHOOSE j \in 1 .. Len(names) :
                /\ names[j] \notin TaxonomyIds
                /\ \A k \in 1 .. j - 1 : names[k] \in TaxonomyIds
    IN names[i]

UnknownKindCase(call) ==
    /\ call.op = "extract"
    /\ WellFormed(call.buf)
    /\ ~call.filters.null
    /\ \A i \in 1 .. call.filters.size : WellFormed(call.filters.data[i])
    /\ \E i \in 1 .. call.filters.size : CStrFromPtr(call.filters.data[i]) \notin TaxonomyIds

C8_FirstUnknownKind ==
    UnknownKindCase(last) =>
        /\ last.status = RESULT_KO
        /\ last.err = UnknownEntityKind(FirstUnknown(last.filters))
        /\ ~last.engine
        /\ last.entities = <<>>
        /\ results = last.pre

\* two unknown names after a valid one: the first of the two is named
C8_Witness ==
    /\ UnknownKindCase(last)
    /\ last.filters = StringArray(<<BufNumber, BufBogus, BufBogus2>>)
    /\ last.err = UnknownEntityKind(IdBogus)
    /\ last.status = RESULT_KO

\* C9: on a Live handle and a well-formed sentence, an extract with a null
\* filter list and an extract with a list naming exactly the kinds supported
\* for the handle's language return the same set of entities.  Stated on
\* two calls made one after the other, in either order.
EnumeratesSupported(filters, lang) ==
    /\ ~filters.null
    /\ Range(FilterNames(filters)) = {Identifier(k) : k \in Range(SupportedKinds(lang))}

NullThenAll(a, b) ==
    /\ a.op = "extract"
    /\ b.op = "extract"
    /\ a.h = b.h
    /\ a.buf = b.buf
    /\ WellFormed(a.buf)
    /\ a.filters.null
    /\ EnumeratesSupported(b.filters, made[b.h])

NullVersusAllStep ==
    (NullThenAll(last, last') \/ NullThenAll(last', last)) =>
        /\ last.status = RESULT_OK
        /\ last'.status = RESULT_OK
        /\ Range(last.entities) = Range(last'.entities)

C9_NullFilterIsAllSupportedKinds == [][NullVersusAllStep]_vars

\* the second call of such a pair, on a handle whose language supports
\* fewer kinds than the taxonomy holds
C9_Witness ==
    /\ last.op = "extract"
    /\ made[last.h] = "KO"
    /\ EnumeratesSupported(last.filters, "KO")
    /\ last.status = RESULT_OK
    /\ Len(last.entities) = 2
    /\ last.pre # NULL

\* C10: what an extract on a Live handle returns (status, error, ordered
\* records) is fixed by the language the handle was created with, the
\* sentence and the filter list, whatever calls came before it, so two
\* calls with the same (handle, sentence, filters) return the same ordered
\* records; each successful call writes an array of its own.
C10_ExtractDependsOnArgumentsOnly ==
    last.op = "extract" =>
        LET e == ExtractTable[made[last.h], last.buf, last.filters] IN
        /\ last.status = (IF e.ok THEN RESULT_OK ELSE RESULT_KO)
        /\ last.err = e.err
        /\ last.entities = e.entities
        /\ last.status = RESULT_OK =>
              (results = nArrays /\ results # last.pre /\ results # NULL)

\* a second successful extract on a handle whose parser instance was
\* shared with a handle destroyed since
C10_Witness ==
    /\ last.op = "extract"
    /\ last.status = RESULT_OK
    /\ last.entities # <<>>
    /\ nArrays = 2
    /\ \E g \in Handles :
          /\ g # last.h
          /\ HState(g) = "Destroyed"
          /\ ParserOf(g) = ParserOf(last.h)

\* C11: a create or extract that returns Failure has recorded its message
\* once, and the message slot then holds that message, whatever it held
\* before; a call that returns Success records nothing and leaves the slot
\* as it was.  Failure is returned exactly when the operation ended in Err.
ReportStep ==
    /\ (last'.op \in {"create", "extract"} /\ last'.status = RESULT_KO) =>
          /\ last'.reports = 1
          /\ last'.err # NoError
          /\ lastError' = last'.err
    /\ last'.status = RESULT_OK =>
          /\ last'.reports = 0
          /\ last'.err = NoError
          /\ lastError' = lastError

C11_FailureRecordsMessage == [][ReportStep]_vars

\* a failing extract after a successful one: the slot holds the message
\* of the failing call
C11_Witness ==
    /\ last.op = "extract"
    /\ last.status = RESULT_KO
    /\ last.err = UnknownEntityKind(IdBogus2)
    /\ lastError = last.err
    /\ last.reports = 1
    /\ nArrays > 0

\* C13: an extract, whether it succeeds or fails, leaves the handle's
\* container, the parser instance and its share count, the caller's handle
\* slots and the caller's filter list as they were; the one thing it adds
\* is the output array, and only on Success.
ExtractFrameStep ==
    last'.op = "extract" =>
        /\ slot' = slot
        /\ boxes' = boxes
        /\ insts' = insts
        /\ last'.mem = last'.filters
        /\ UNCHANGED <<destroys, made, policy>>
        /\ last'.status = RESULT_KO => (results' = results /\ nArrays' = nArrays)
        /\ last'.status = RESULT_OK => nArrays' = nArrays + 1

C13_ExtractHasNoSideEffects == [][ExtractFrameStep]_vars

\* a successful extract with a filter list, on a parser instance that two
\* Live handles share
C13_Witness ==
    /\ last.op = "extract"
    /\ last.status = RESULT_OK
    /\ ~last.filters.null
    /\ last.mem = last.filters
    /\ Cardinality(LiveOn(ParserOf(last.h))) = 2

\* C14: destroy on a Live handle returns Success and records no message.
DestroyStep ==
    last'.op = "destroy" =>
        /\ last'.status = RESULT_OK
        /\ last'.err = NoError
        /\ last'.reports = 0
        /\ lastError' = lastError

C14_DestroyAlwaysSucceeds == [][DestroyStep]_vars

\* a destroy of one of two handles on a shared parser instance, with the
\* message of an earlier failure still in the slot
C14_Witness ==
    /\ last.op = "destroy"
    /\ last.status = RESULT_OK
    /\ lastError # NoError
    /\ Cardinality(LiveOn(ParserOf(last.h))) = 1

\* C15: after a successful extract the out_result slot holds an array
\* allocated by this call, with one converted record for each record the
\* engine returned, in the engine's order.
EngineRecords(call) == EngineExtract(made[call.h], CStrFromPtr(call.buf), call.opt)

C15_ResultArrayMirrorsEngine ==
    (last.op = "extract" /\ last.status = RESULT_OK) =>
        /\ last.engine
        /\ results # NULL
        /\ results # last.pre
        /\ results = nArrays
        /\ Len(last.entities) = Len(EngineRecords(last))
        /\ \A i \in 1 .. Len(last.entities) :
              /\ last.entities[i].entity_kind = CBuf(Identifier(EngineRecords(last)[i].kind))
              /\ last.entities[i].value = CBuf(EngineRecords(last)[i].value)
              /\ last.entities[i].range_start = EngineRecords(last)[i].start
              /\ last.entities[i].range_end = EngineRecords(last)[i].end

\* three records of three kinds, written over the array of an earlier call
C15_Witness ==
    /\ last.op = "extract"
    /\ last.status = RESULT_OK
    /\ Len(last.entities) = 3
    /\ last.pre # NULL
    /\ results = nArrays

\* C16: the sentence is validated before the filter list is looked at: a
\* malformed sentence together with a malformed or unknown filter element
\* fails with InvalidText, never with UnknownEntityKind.
BadElement(buf) == ~WellFormed(buf) \/ CStrFromPtr(buf) \notin TaxonomyIds

C16_SentenceCheckedFirst ==
    (/\ last.op = "extract"
     /\ ~WellFormed(last.buf)
     /\ \E i \in 1 .. last.filters.size : BadElement(last.filters.data[i])) =>
        /\ last.status = RESULT_KO
        /\ last.err = InvalidText
        /\ last.seen = 0

\* a malformed sentence with a list whose first failing element is an
\* unknown, well-formed name
C16_Witness ==
    /\ last.op = "extract"
    /\ last.buf = BufBadSentence
    /\ last.filters = StringArray(<<BufNumber, BufBogus, BufBogus2>>)
    /\ last.err = InvalidText
    /\ last.status = RESULT_KO

\* C17: with a well-formed sentence, the first filter element in list
\* order that fails to decode or to resolve decides the error: InvalidText
\* if it is malformed, UnknownEntityKind naming it if it is unknown; no
\* element after it is looked at.
FirstBad(filters) ==
    CHOOSE j \in 1 .. filters.size :
        /\ BadElement(filters.data[j])
        /\ \A k \in 1 .. j - 1 : ~BadElement(filters.data[k])

C17_FirstFailingElementDecides ==
    (/\ last.op = "extract"
     /\ WellFormed(last.buf)
     /\ \E i \in 1 .. last.filters.size : BadElement(last.filters.data[i])) =>
        LET j == FirstBad(last.filters)
            elem == last.filters.data[j]
        IN /\ last.status = RESULT_KO
           /\ last.err = IF WellFormed(elem)
                         THEN UnknownEntityKind(CStrFromPtr(elem))
                         ELSE InvalidText
           /\ last.seen = j

\* an unknown name ahead of a malformed element
C17_Witness ==
    /\ last.op = "extract"
    /\ WellFormed(last.buf)
    /\ last.filters = StringArray(<<BufBogus, BufBadKind>>)
    /\ last.err = UnknownEntityKind(IdBogus)
    /\ last.seen = 1

\* C18: a filter list that is present with zero elements reaches the engine
\* as an empty filter set; the engine is given "no filter" only for a null
\* pointer.
C18_EmptyListIsNotAbsent ==
    (last.op = "extract" /\ WellFormed(last.buf)) =>
        /\ (~last.filters.null /\ last.filters.size = 0) =>
              (last.status = RESULT_OK /\ last.engine /\ last.opt = Some(<<>>))
        /\ (last.engine /\ ~last.opt.some) => last.filters.null
        /\ last.filters.null => (last.engine /\ last.opt = None)

\* the empty list on a sentence in which a null filter finds entities
C18_Witness ==
    /\ last.op = "extract"
    /\ last.buf = BufSentence
    /\ last.filters = StringArray(<<>>)
    /\ last.status = RESULT_OK
    /\ last.opt.some
    /\ last.entities = <<>>

\* C12: extract calls running at the same time on one live handle are safe:
\* under every interleaving a step of a call leaves the handle slots, the
\* containers and the parser instances as they were, and the call returns
\* what it returns when it runs alone.
Alone(call) == ExtractTable[made[call.h], call.buf, call.filters]

ConcurrentExtractStep ==
    \A t \in Threads :
        threads'[t] # threads[t] =>
            /\ slot' = slot
            /\ boxes' = boxes
            /\ insts' = insts
            /\ UNCHANGED <<made, destroys>>
            /\ InFlight(t) =>
                  /\ threads'[t].parser = threads[t].parser
                  /\ threads'[t].pc = "idle" =>
                        /\ threads'[t].status = WrapStatus(Alone(threads[t]))
                        /\ threads'[t].err = Alone(threads[t]).err
                        /\ threads'[t].entities = Alone(threads[t]).entities

C12_ConcurrentExtractsAreSafe == [][ConcurrentExtractStep]_vars

\* one call has returned its entities after running alongside another call
\* on the same handle that is still in flight
C12_Witness ==
    \E t, u \in Threads :
        /\ t # u
        /\ threads[t].pc = "idle"
        /\ threads[t].overlapped
        /\ threads[t].status = RESULT_OK
        /\ threads[t].entities # <<>>
        /\ InFlight(u)
        /\ threads[u].overlapped
        /\ threads[u].h = threads[t].h
        /\ threads[u].parser = threads[t].parser

====
